---- MODULE Spec2Model ----
(***************************************************************************)
(* Image-to-Markdown plugin (obsidian-image-markdown).                     *)
(*                                                                         *)
(* The repository holds two versions of the plugin source:                 *)
(*   src/unnamed/part_000  (exif- prefixed keys, image size lines, embed   *)
(*                          links, one static property per line)           *)
(*   src/main.ts           (plain keys, plain links, comma separated       *)
(*                          static properties, a tags line)                *)
(* The variable build says which of the two is running.                    *)
(*                                                                         *)
(* Text is modelled by TLA+ strings; split, trim, encodeURI, padStart and  *)
(* template interpolation are computed character by character.             *)
(***************************************************************************)
EXTENDS Integers, Sequences, FiniteSets, TLC

VARIABLES
    build,      \* which source file is the plugin: "part_000" or "main"
    settings,   \* this.settings
    docs,       \* the vault's documents: path -> text, for the paths that exist
    tasks,      \* the click handlers: tasks[t] is the t-th onClick promise
    saved,      \* what saveData() stored: <<>> or <<the settings saved last>>
    edits       \* settings edits so far

vars == <<build, settings, docs, tasks, saved, edits>>

\* ---------------------------------------------------------------- bounds

\* Menu clicks in one behaviour: each starts one onClick handler.
MaxTasks == 2
\* Settings edits in one behaviour.
MaxEdits == 1

\* ------------------------------------------------------------ JS strings

Char(s, i) == SubSeq(s, i, i)

\* Index of the first occurrence of the one-character string c in s, 0 if none.
RECURSIVE IndexFrom(_, _, _)
IndexFrom(s, c, i) ==
    IF i > Len(s) THEN 0
    ELSE IF Char(s, i) = c THEN i
    ELSE IndexFrom(s, c, i + 1)

\* String.prototype.split(c) for a one-character separator.
RECURSIVE Split(_, _)
Split(s, c) ==
    LET k == IndexFrom(s, c, 1) IN
    IF k = 0 THEN <<s>>
    ELSE <<SubSeq(s, 1, k - 1)>> \o Split(SubSeq(s, k + 1, Len(s)), c)

\* String.prototype.split(/\r?\n/).
RECURSIVE SplitLines(_)
SplitLines(s) ==
    LET k == IndexFrom(s, "\n", 1) IN
    IF k = 0 THEN <<s>>
    ELSE LET e == IF k > 1 /\ Char(s, k - 1) = "\r" THEN k - 2 ELSE k - 1
         IN <<SubSeq(s, 1, e)>> \o SplitLines(SubSeq(s, k + 1, Len(s)))

WhiteSpace == {" ", "\t", "\n", "\r"}

RECURSIVE TrimStart(_)
TrimStart(s) ==
    IF Len(s) > 0 /\ Char(s, 1) \in WhiteSpace
    THEN TrimStart(SubSeq(s, 2, Len(s)))
    ELSE s

RECURSIVE TrimEnd(_)
TrimEnd(s) ==
    IF Len(s) > 0 /\ Char(s, Len(s)) \in WhiteSpace
    THEN TrimEnd(SubSeq(s, 1, Len(s) - 1))
    ELSE s

\* String.prototype.trim().
Trim(s) == TrimEnd(TrimStart(s))

\* Array.prototype.map(part => part.trim()).
MapTrim(parts) == [i \in 1..Len(parts) |-> Trim(parts[i])]

\* Array.prototype.join(sep).
RECURSIVE Join(_, _)
Join(parts, sep) ==
    IF Len(parts) = 0 THEN ""
    ELSE IF Len(parts) = 1 THEN parts[1]
    ELSE parts[1] \o sep \o Join(Tail(parts), sep)

\* encodeURI of one character: letters, digits and ; , / ? : @ & = + $ - _ . !
\* ~ * ' ( ) # stay, everything else is percent-encoded.
EncodeChar(c) ==
    CASE c = " " -> "%20"
      [] c = "%" -> "%25"
      [] c = "[" -> "%5B"
      [] c = "]" -> "%5D"
      [] OTHER   -> c

RECURSIVE encodeURI(_)
encodeURI(s) ==
    IF Len(s) = 0 THEN ""
    ELSE EncodeChar(Char(s, 1)) \o encodeURI(SubSeq(s, 2, Len(s)))

\* String(n).padStart(2, '0').
PadStart2(n) == IF n < 10 THEN "0" \o ToString(n) ELSE ToString(n)

\* The value of a destructured array element that does not exist.
Undefined == "undefined"

\* `${v}` for a value that is a string or undefined.
Interp(v) == v

\* ------------------------------------------------------------- the vault

\* TFile.parent of a file without a parent folder (null).
NoParent == "<null>"

\* this.app.vault.getFiles(): the files of the vault, in enumeration order.
\* exif is what ExifParserFactory.create(bytes).parse() yields on the file's
\* bytes: "throws" (the parser rejects bytes that are no JPEG stream), or the
\* image size (when the parser found one) and the tags, in the parser's order.
Files == <<
    [path |-> "p/a.jpg", basename |-> "a", extension |-> "jpg", parent |-> "p",
     exif |-> [throws |-> FALSE, hasSize |-> TRUE, height |-> 1080, width |-> 1920,
               tags |-> <<[key |-> "Make", str |-> "Acme"], [key |-> "ISO", num |-> 100]>>]],
    [path |-> "p/b.txt", basename |-> "b", extension |-> "txt", parent |-> "p",
     exif |-> [throws |-> TRUE, hasSize |-> FALSE, height |-> 0, width |-> 0, tags |-> <<>>]],
    [path |-> "pq/c d.JPEG", basename |-> "c d", extension |-> "JPEG", parent |-> "pq",
     exif |-> [throws |-> FALSE, hasSize |-> FALSE, height |-> 0, width |-> 0, tags |-> <<>>]],
    [path |-> "p/e.png", basename |-> "e", extension |-> "png", parent |-> "p",
     exif |-> [throws |-> TRUE, hasSize |-> FALSE, height |-> 0, width |-> 0, tags |-> <<>>]],
    [path |-> "o.gif", basename |-> "o", extension |-> "gif", parent |-> NoParent,
     exif |-> [throws |-> TRUE, hasSize |-> FALSE, height |-> 0, width |-> 0, tags |-> <<>>]]
>>

FileIds == 1..Len(Files)

\* The folders the file menu can be opened on (TFolder.path).
Folders == {"p"}

\* new Date(): the day the plugin runs on.
Today == [year |-> 2024, month |-> 3, day |-> 5]

\* String.prototype.toLowerCase(), one character.
LowerChar(c) ==
    CASE c = "A" -> "a" [] c = "B" -> "b" [] c = "C" -> "c" [] c = "D" -> "d"
      [] c = "E" -> "e" [] c = "F" -> "f" [] c = "G" -> "g" [] c = "H" -> "h"
      [] c = "I" -> "i" [] c = "J" -> "j" [] c = "K" -> "k" [] c = "L" -> "l"
      [] c = "M" -> "m" [] c = "N" -> "n" [] c = "O" -> "o" [] c = "P" -> "p"
      [] c = "Q" -> "q" [] c = "R" -> "r" [] c = "S" -> "s" [] c = "T" -> "t"
      [] c = "U" -> "u" [] c = "V" -> "v" [] c = "W" -> "w" [] c = "X" -> "x"
      [] c = "Y" -> "y" [] c = "Z" -> "z" [] OTHER -> c

RECURSIVE toLowerCase(_)
toLowerCase(s) ==
    IF Len(s) = 0 THEN ""
    ELSE LowerChar(Char(s, 1)) \o toLowerCase(SubSeq(s, 2, Len(s)))

\* String.prototype.startsWith(prefix).
startsWith(s, prefix) == Len(prefix) <= Len(s) /\ SubSeq(s, 1, Len(prefix)) = prefix

\* ['png', 'jpg', 'jpeg', 'gif'].includes(file.extension.toLowerCase())
IsImage(file) == toLowerCase(file.extension) \in {"png", "jpg", "jpeg", "gif"}

\* ------------------------------------------------------------- settings

\* (tags is a setting of src/main.ts only; targetPath and templatePath are
\* never read by a conversion and are left out.)
DEFAULT_SETTINGS == [useMarkdownLinks |-> TRUE, yamlProperties |-> "", tags |-> ""]

\* Texts the settings tab's text areas may hold.
YamlTexts == {"", "location:Berlin", "a: b\r\n c:d:e\nx"}
TagTexts == {"", "t1, t2"}

\* ---------------------------------------------------- document synthesis

\* `${value}` of an EXIF tag value: a string, or a number in decimal.
TagText(tag) == IF "num" \in DOMAIN tag THEN ToString(tag.num) ELSE tag.str

\* if (exifData.getImageSize()) { exif-height, exif-width }
SizeLines(exif) ==
    IF exif.hasSize
    THEN "exif-height: " \o ToString(exif.height) \o "\n"
         \o "exif-width: " \o ToString(exif.width) \o "\n"
    ELSE ""

\* for (const [key, value] of Object.entries(tags)) yamlFrontmatter += ...
RECURSIVE TagLines(_, _)
TagLines(tags, prefix) ==
    IF Len(tags) = 0 THEN ""
    ELSE prefix \o tags[1].key \o ": " \o TagText(tags[1]) \o "\n"
         \o TagLines(Tail(tags), prefix)

\* const [key, value] = prop.split(':').map(part => part.trim());
\* yamlFrontmatter += `${key}: ${value}\n`;
PropertyLine(prop) ==
    LET parts == MapTrim(Split(prop, ":"))
        key   == parts[1]
        value == IF Len(parts) >= 2 THEN parts[2] ELSE Undefined
    IN Interp(key) \o ": " \o Interp(value) \o "\n"

\* customProperties.forEach(prop => ...)
RECURSIVE CustomLines(_)
CustomLines(props) ==
    IF Len(props) = 0 THEN ""
    ELSE PropertyLine(props[1]) \o CustomLines(Tail(props))

\* this.settings.yamlProperties.split(...).map(prop => prop.trim())
CustomProperties(b, s) ==
    IF b = "part_000"
    THEN MapTrim(SplitLines(s.yamlProperties))
    ELSE MapTrim(Split(s.yamlProperties, ","))

\* main.ts only: if (this.settings.tags) { tags: a, b\n }
TagsLine(b, s) ==
    IF b = "main" /\ s.tags # ""
    THEN "tags: " \o Join(MapTrim(Split(s.tags, ",")), ", ") \o "\n"
    ELSE ""

\* `${getFullYear()}-${padStart(getMonth() + 1)}-${padStart(getDate())}`
FormattedDate(d) ==
    ToString(d.year) \o "-" \o PadStart2(d.month) \o "-" \o PadStart2(d.day)

\* FrontmatterHead with the custom properties added before the EXIF tags.
FrontmatterHeadCustomFirst(b, file, s) ==
    "---\n"
    \o (IF b = "part_000" THEN SizeLines(file.exif) ELSE "")
    \o CustomLines(CustomProperties(b, s))
    \o TagLines(file.exif.tags, IF b = "part_000" THEN "exif-" ELSE "")

\* yamlFrontmatter as it stands when the custom properties have been added.
FrontmatterHead(b, file, s) ==
    "---\n"
    \o (IF b = "part_000" THEN SizeLines(file.exif) ELSE "")
    \o TagLines(file.exif.tags, IF b = "part_000" THEN "exif-" ELSE "")
    \o CustomLines(CustomProperties(b, s))

\* yamlFrontmatter, complete.
YamlFrontmatter(b, file, s) ==
    FrontmatterHead(b, file, s)
    \o TagsLine(b, s)
    \o "created: " \o FormattedDate(Today) \o "\n"
    \o "---\n"

\* Link with filePath in the markdown link instead of encodedFilePath.
LinkRawPath(b, file, s) ==
    LET bang == IF b = "part_000" THEN "!" ELSE "" IN
    IF s.useMarkdownLinks
    THEN bang \o "[" \o file.basename \o "](" \o file.path \o ")"
    ELSE bang \o "[[" \o file.path \o "]]"

\* const link = this.settings.useMarkdownLinks ? ... : ...
Link(b, file, s) ==
    LET bang == IF b = "part_000" THEN "!" ELSE "" IN
    IF s.useMarkdownLinks
    THEN bang \o "[" \o file.basename \o "](" \o encodeURI(file.path) \o ")"
    ELSE bang \o "[[" \o file.path \o "]]"

\* const markdownContent = `${yamlFrontmatter}\n${link}`;
MarkdownContent(b, file, s) == YamlFrontmatter(b, file, s) \o "\n" \o Link(b, file, s)

\* const newFilePath = `${file.parent.path}/${fileName}.md`;
NewFilePath(file) == file.parent \o "/" \o file.basename \o ".md"

\* ------------------------------------------------------- click handlers

Tasks == 1..MaxTasks

\* A handler that has not been started. pc is where the handler is suspended:
\*   readBinary  at  await this.app.vault.adapter.readBinary(filePath)
\*   exists      at  await this.app.vault.adapter.exists(newFilePath)
\*   create      at  await this.app.vault.create(newFilePath, markdownContent)
\*   done        the handler's promise is fulfilled
\*   rejected    the handler's promise is rejected (an exception escaped)
\* imageFiles[i] is the file being converted; log holds one entry per
\* conversion that ended, with how it ended and the notices it showed;
\* cfgStart and cfgRead record this.settings when the conversion was called
\* and when it composed its document.
IdleTask ==
    [pc |-> "idle", kind |-> "none", imageFiles |-> <<>>, i |-> 0,
     md |-> "", newFilePath |-> "",
     cfgStart |-> DEFAULT_SETTINGS, cfgRead |-> DEFAULT_SETTINGS,
     notices |-> <<>>, log |-> <<>>]

InFlight(task) == task.pc \in {"readBinary", "exists", "create"}

\* new Notice(msg)
Notice(task, msg) == [task EXCEPT !.notices = Append(@, msg)]

\* The current conversion is over (it returned or it threw).
EndConversion(task, outcome) ==
    [task EXCEPT
        !.log = Append(@, [file |-> task.imageFiles[task.i], outcome |-> outcome,
                           notices |-> task.notices]),
        !.notices = <<>>]

\* An exception escapes createMarkdownForImage: nothing catches it, neither
\* there, nor in the for loop of createMarkdownForFolder, nor in onClick.
Throw(task, outcome) == [EndConversion(task, outcome) EXCEPT !.pc = "rejected"]

\* The handler from its i-th file on, up to its next await: the for loop of
\* createMarkdownForFolder (or the one call of the image menu item) and the
\* start of createMarkdownForImage, to the readBinary call.
RECURSIVE Begin(_, _, _, _)
Begin(b, s, task, i) ==
    IF i > Len(task.imageFiles)
    THEN [task EXCEPT !.pc = "done", !.i = i]
    ELSE LET file == Files[task.imageFiles[i]]
             t1   == [task EXCEPT !.i = i, !.cfgStart = s, !.md = "",
                                  !.newFilePath = ""]
         IN IF file.parent = NoParent
            THEN Begin(b, s,
                       EndConversion(Notice(t1, "The file has no parent path"),
                                     "NoParentDirectory"),
                       i + 1)
            ELSE [(IF b = "part_000" THEN Notice(t1, "Reading image") ELSE t1)
                    EXCEPT !.pc = "readBinary"]

\* files.filter(file => file.path.startsWith(folder.path) && [...].includes(...))
\* over getFiles(), as indices into Files. (The vault's documents are files of
\* getFiles() too; their extension is md, so the filter drops them.)
RECURSIVE ImageFilesFrom(_, _)
ImageFilesFrom(folder, i) ==
    IF i > Len(Files) THEN <<>>
    ELSE (IF startsWith(Files[i].path, folder) /\ IsImage(Files[i])
          THEN <<i>> ELSE <<>>)
         \o ImageFilesFrom(folder, i + 1)

ImageFiles(folder) == ImageFilesFrom(folder, 1)

\* The handler a click starts: the first one not started yet.
FreeTask == CHOOSE t \in Tasks :
    tasks[t].pc = "idle" /\ \A u \in Tasks : tasks[u].pc = "idle" => t <= u

\* AfterRead with the link style taken from the settings as they were when the
\* conversion was called, and the rest from the settings as they are.
AfterReadStaleLink(b, s, task) ==
    LET file == Files[task.imageFiles[task.i]]
    IN IF file.exif.throws
       THEN Throw(task, "ExtractionFailed")
       ELSE [task EXCEPT !.md = YamlFrontmatter(b, file, s) \o "\n"
                                \o Link(b, file, task.cfgStart),
                         !.newFilePath = NewFilePath(file),
                         !.cfgRead = s,
                         !.pc = "exists"]

\* The part of createMarkdownForImage between the readBinary await and the
\* exists await: parse, compose, and call exists.
AfterRead(b, s, task) ==
    LET file == Files[task.imageFiles[task.i]]
    IN IF file.exif.throws
       THEN Throw(task, "ExtractionFailed")
       ELSE LET n1 == IF b = "part_000" THEN Notice(task, "generating yaml for") ELSE task
                n2 == IF b = "part_000" /\ ~file.exif.hasSize
                      THEN Notice(n1, "No EXIF data") ELSE n1
                n3 == IF b = "part_000"
                      THEN Notice(Notice(n2, FrontmatterHead(b, file, s)),
                                  YamlFrontmatter(b, file, s))
                      ELSE n2
            IN [n3 EXCEPT !.md = MarkdownContent(b, file, s),
                          !.newFilePath = NewFilePath(file),
                          !.cfgRead = s,
                          !.pc = "exists"]

\* ---------------------------------------------------------------- actions

Init ==
    /\ build \in {"part_000", "main"}
    /\ settings = DEFAULT_SETTINGS
    /\ docs = <<>>
    /\ tasks = [t \in Tasks |-> IdleTask]
    /\ saved = <<>>
    /\ edits = 0

\* file-menu on an image file, 'Generate Markdown for Image'.
ClickImage(f) ==
    /\ \E t \in Tasks : tasks[t].pc = "idle"
    /\ IsImage(Files[f])
    /\ tasks' = [tasks EXCEPT ![FreeTask] =
            Begin(build, settings,
                  [IdleTask EXCEPT !.kind = "image", !.imageFiles = <<f>>], 1)]
    /\ UNCHANGED <<build, settings, docs, saved, edits>>

\* file-menu on a folder, 'Generate Markdown for All Images in Folder'.
ClickFolder(folder) ==
    /\ \E t \in Tasks : tasks[t].pc = "idle"
    /\ tasks' = [tasks EXCEPT ![FreeTask] =
            Begin(build, settings,
                  [IdleTask EXCEPT !.kind = "folder",
                                   !.imageFiles = ImageFiles(folder)], 1)]
    /\ UNCHANGED <<build, settings, docs, saved, edits>>

\* readBinary fulfils; the handler runs on to the exists call.
ReadResolve(t) ==
    /\ tasks[t].pc = "readBinary"
    /\ tasks' = [tasks EXCEPT ![t] = AfterRead(build, settings, tasks[t])]
    /\ UNCHANGED <<build, settings, docs, saved, edits>>

\* readBinary rejects (ReadFailed).
ReadReject(t) ==
    /\ tasks[t].pc = "readBinary"
    /\ tasks' = [tasks EXCEPT ![t] = Throw(tasks[t], "ReadFailed")]
    /\ UNCHANGED <<build, settings, docs, saved, edits>>

\* exists fulfils; the handler resumes with the answer: it calls vault.create,
\* or reports that the document exists and goes on with the next file.
ExistsResolve(t) ==
    /\ tasks[t].pc = "exists"
    /\ tasks' = [tasks EXCEPT ![t] =
            IF tasks[t].newFilePath \notin DOMAIN docs
            THEN [@ EXCEPT !.pc = "create"]
            ELSE Begin(build, settings,
                       EndConversion(
                           Notice(tasks[t], "Markdown file already exists: "
                                            \o tasks[t].newFilePath),
                           "AlreadyExists"),
                       tasks[t].i + 1)]
    /\ UNCHANGED <<build, settings, docs, saved, edits>>

\* vault.create runs: it writes the document, or throws when a file is at the
\* path already (the vault creates, it never overwrites).
CreateResolve(t) ==
    /\ tasks[t].pc = "create"
    /\ IF tasks[t].newFilePath \in DOMAIN docs
       THEN /\ tasks' = [tasks EXCEPT ![t] = Throw(tasks[t], "WriteFailed")]
            /\ docs' = docs
       ELSE /\ docs' = [p \in DOMAIN docs \cup {tasks[t].newFilePath} |->
                            IF p = tasks[t].newFilePath THEN tasks[t].md ELSE docs[p]]
            /\ tasks' = [tasks EXCEPT ![t] =
                    Begin(build, settings,
                          EndConversion(
                              Notice(tasks[t], "Markdown file created: "
                                               \o tasks[t].newFilePath),
                              "Created"),
                          tasks[t].i + 1)]
    /\ UNCHANGED <<build, settings, saved, edits>>

\* vault.create rejects for a reason of the disk's (WriteFailed).
CreateReject(t) ==
    /\ tasks[t].pc = "create"
    /\ tasks' = [tasks EXCEPT ![t] = Throw(tasks[t], "WriteFailed")]
    /\ UNCHANGED <<build, settings, docs, saved, edits>>

\* Settings tab, 'Use Markdown Links' toggle: onChange sets the field and
\* saves the settings.
ToggleLinks ==
    /\ edits < MaxEdits
    /\ settings' = [settings EXCEPT !.useMarkdownLinks = ~@]
    /\ saved' = <<settings'>>
    /\ edits' = edits + 1
    /\ UNCHANGED <<build, docs, tasks>>

\* Settings tab, 'YAML Properties' text area.
SetYamlProperties(value) ==
    /\ edits < MaxEdits
    /\ value # settings.yamlProperties
    /\ settings' = [settings EXCEPT !.yamlProperties = value]
    /\ saved' = <<settings'>>
    /\ edits' = edits + 1
    /\ UNCHANGED <<build, docs, tasks>>

\* Settings tab, 'Tags' text area (main.ts only).
SetTags(value) ==
    /\ edits < MaxEdits
    /\ build = "main"
    /\ value # settings.tags
    /\ settings' = [settings EXCEPT !.tags = value]
    /\ saved' = <<settings'>>
    /\ edits' = edits + 1
    /\ UNCHANGED <<build, docs, tasks>>

Next ==
    \/ \E f \in FileIds : ClickImage(f)
    \/ \E folder \in Folders : ClickFolder(folder)
    \/ \E t \in Tasks : ReadResolve(t)
    \/ \E t \in Tasks : ReadReject(t)
    \/ \E t \in Tasks : ExistsResolve(t)
    \/ \E t \in Tasks : CreateResolve(t)
    \/ \E t \in Tasks : CreateReject(t)
    \/ ToggleLinks
    \/ \E value \in YamlTexts : SetYamlProperties(value)
    \/ \E value \in TagTexts : SetTags(value)

Spec == Init /\ [][Next]_vars

\* The user waits for a menu action to finish before the next click (a click
\* is possible only while no handler is pending) and the vault's own
\* operations succeed: readBinary fulfils, and vault.create fails only on a
\* path that exists. Parsing and settings edits are as in Spec.
NextSerial ==
    \/ /\ \A t \in Tasks : ~InFlight(tasks[t])
       /\ \E f \in FileIds : ClickImage(f)
    \/ /\ \A t \in Tasks : ~InFlight(tasks[t])
       /\ \E folder \in Folders : ClickFolder(folder)
    \/ \E t \in Tasks : ReadResolve(t)
    \/ \E t \in Tasks : ExistsResolve(t)
    \/ \E t \in Tasks : CreateResolve(t)
    \/ ToggleLinks
    \/ \E value \in YamlTexts : SetYamlProperties(value)
    \/ \E value \in TagTexts : SetTags(value)

SpecSerial == Init /\ [][NextSerial]_vars

\* ------------------------------------------------- reading a document back

\* Index of the closing delimiter: the first "---" line after the first line
\* (0 if there is none).
RECURSIVE CloseFrom(_, _)
CloseFrom(lines, i) ==
    IF i > Len(lines) THEN 0
    ELSE IF lines[i] = "---" THEN i
    ELSE CloseFrom(lines, i + 1)

\* The document read back line by line: whether it starts with a delimiter
\* line and has a closing one, the lines between the two, the lines after
\* the closing one, and the last line.
ReadBack(md) ==
    LET lines == Split(md, "\n")
        close == CloseFrom(lines, 2)
    IN [delimited |-> lines[1] = "---" /\ close > 0,
        front     |-> SubSeq(lines, 2, close - 1),
        after     |-> SubSeq(lines, close + 1, Len(lines)),
        last      |-> lines[Len(lines)]]

\* A handler that holds a composed document (between composing and writing).
Composed(task) == task.pc \in {"exists", "create"}

CurrentFile(task) == Files[task.imageFiles[task.i]]

\* ------------------------------------------- what a document should hold

\* The two image size lines of src/unnamed/part_000.
ExpSizeLines(file) ==
    IF file.exif.hasSize
    THEN <<"exif-height: " \o ToString(file.exif.height),
           "exif-width: " \o ToString(file.exif.width)>>
    ELSE <<>>

\* One line per extracted tag, in extraction order, behind the given prefix.
ExpTagLines(file, prefix) ==
    [i \in 1..Len(file.exif.tags) |->
        prefix \o file.exif.tags[i].key \o ": " \o TagText(file.exif.tags[i])]

\* The static-property lines of a properties text, worked out by hand from
\* the JavaScript: one `key: value` per line of the text (part_000) or per
\* comma separated item (main.ts), where value is the text between the first
\* and the second colon, and `undefined` when the item has no colon.
ExpStaticLines(b, text) ==
    CASE text = "" -> <<": undefined">>
      [] text = "location:Berlin" -> <<"location: Berlin">>
      [] text = "a: b\r\n c:d:e\nx" ->
            IF b = "part_000"
            THEN <<"a: b", "c: d", "x: undefined">>
            ELSE <<"a: b\r", " c">>

\* The tags line of src/main.ts.
ExpTagsLines(b, tags) ==
    IF b = "main" /\ tags = "t1, t2" THEN <<"tags: t1, t2">> ELSE <<>>

ExpCreatedLine == "created: 2024-03-05"

\* encodeURI of the vault's paths, by hand.
ExpEncoded(path) == IF path = "pq/c d.JPEG" THEN "pq/c%20d.JPEG" ELSE path

\* C6 as stated: size lines, exif- lines, static-property lines, created.
ClaimedFrontLines(file, cfg) ==
    ExpSizeLines(file) \o ExpTagLines(file, "exif-")
    \o ExpStaticLines("part_000", cfg.yamlProperties) \o <<ExpCreatedLine>>

\* What each source file composes.
BuildFrontLines(b, file, cfg) ==
    IF b = "part_000"
    THEN ClaimedFrontLines(file, cfg)
    ELSE ExpTagLines(file, "") \o ExpStaticLines(b, cfg.yamlProperties)
         \o ExpTagsLines(b, cfg.tags) \o <<ExpCreatedLine>>

\* C9 as stated: the embed forms.
ClaimedLink(file, cfg) ==
    IF cfg.useMarkdownLinks
    THEN "![" \o file.basename \o "](" \o ExpEncoded(file.path) \o ")"
    ELSE "![[" \o file.path \o "]]"

\* The link each source file composes: main.ts leaves the `!` out.
BuildLink(b, file, cfg) ==
    IF b = "part_000" THEN ClaimedLink(file, cfg)
    ELSE IF cfg.useMarkdownLinks
    THEN "[" \o file.basename \o "](" \o ExpEncoded(file.path) \o ")"
    ELSE "[[" \o file.path \o "]]"

\* --------------------------------------------------------------- claims

ConfigLines(b, file, front) ==
    LET k == Len(file.exif.tags)
             + (IF b = "part_000" THEN Len(ExpSizeLines(file)) ELSE 0)
    IN SubSeq(front, k + 1, Len(front) - 1)

\* C8 (as stated): no settings edit takes effect while a conversion is in
\* flight: the static-property lines and the link style of every composed
\* document come from the settings that were current when the conversion
\* started.
C8_Claimed ==
    \A t \in Tasks : Composed(tasks[t]) =>
        LET doc == ReadBack(tasks[t].md) IN
        /\ ConfigLines(build, CurrentFile(tasks[t]), doc.front)
             = ExpStaticLines(build, tasks[t].cfgStart.yamlProperties)
               \o ExpTagsLines(build, tasks[t].cfgStart.tags)
        /\ doc.last = BuildLink(build, CurrentFile(tasks[t]), tasks[t].cfgStart)

\* C8 (amended): the static-property lines and the link style of every
\* composed document come from one value of the settings, the one current
\* when the conversion resumed from reading the image's bytes; an edit made
\* while the conversion waits for the bytes does take effect, a later one
\* does not.
C8_ConfigAtComposition ==
    \A t \in Tasks : Composed(tasks[t]) =>
        LET doc == ReadBack(tasks[t].md) IN
        /\ ConfigLines(build, CurrentFile(tasks[t]), doc.front)
             = ExpStaticLines(build, tasks[t].cfgRead.yamlProperties)
               \o ExpTagsLines(build, tasks[t].cfgRead.tags)
        /\ doc.last = BuildLink(build, CurrentFile(tasks[t]), tasks[t].cfgRead)

\* C8 witness: a document composed after an edit made during the byte read,
\* still waiting to be written.
C8_Witness ==
    \E t \in Tasks :
        /\ Composed(tasks[t])
        /\ tasks[t].cfgStart # tasks[t].cfgRead
        /\ tasks[t].cfgRead = settings

Ended(task) == task.pc \in {"done", "rejected"}

\* vault.create calls a handler made: conversions that ended Created or
\* WriteFailed.
Creates(task) ==
    Cardinality({k \in 1..Len(task.log) :
                    task.log[k].outcome \in {"Created", "WriteFailed"}})

\* C1: two successive conversions of the same asset (one with a parent
\* directory) under the same settings make exactly one createFile; the second
\* ends AlreadyExists and the document of the first is still there unchanged.
C1_Idempotent ==
    \A t1, t2 \in Tasks :
        ( /\ t1 < t2
          /\ edits = 0
          /\ tasks[t1].kind = "image" /\ tasks[t2].kind = "image"
          /\ Ended(tasks[t1]) /\ Ended(tasks[t2])
          /\ tasks[t1].imageFiles = tasks[t2].imageFiles
          /\ Files[tasks[t1].imageFiles[1]].parent # NoParent )
        => /\ Creates(tasks[t1]) + Creates(tasks[t2]) = 1
           /\ tasks[t2].log[1].outcome = "AlreadyExists"
           /\ NewFilePath(Files[tasks[t1].imageFiles[1]]) \in DOMAIN docs
           /\ docs[NewFilePath(Files[tasks[t1].imageFiles[1]])] = tasks[t1].md

\* C2: conversions never race on a target path: no two handlers are between
\* their exists check and their createFile for the same path, and createFile
\* is never pending for a path at which a document exists.
C2_NoRace ==
    /\ \A t, u \in Tasks :
          (t # u /\ tasks[t].pc = "create" /\ tasks[u].pc = "create")
          => tasks[t].newFilePath # tasks[u].newFilePath
    /\ \A t \in Tasks :
          tasks[t].pc = "create" => tasks[t].newFilePath \notin DOMAIN docs

\* C3: a batch ends only after convertOne was called for every selected
\* file, whatever failed on the way.
C3_BatchIsolation ==
    \A t \in Tasks :
        (tasks[t].kind = "folder" /\ Ended(tasks[t]))
        => Len(tasks[t].log) = Len(tasks[t].imageFiles)

\* C4: when the parser fails on the bytes that were read, the conversion goes
\* on without metadata: it ends Created or AlreadyExists (or with a failed
\* write), never with the parser's exception.
C4_ExtractionRecovered ==
    \A t \in Tasks : \A k \in 1..Len(tasks[t].log) :
        ( /\ Files[tasks[t].log[k].file].exif.throws
          /\ Files[tasks[t].log[k].file].parent # NoParent
          /\ tasks[t].log[k].outcome # "ReadFailed" )
        => tasks[t].log[k].outcome \in {"Created", "AlreadyExists", "WriteFailed"}

\* The notices createMarkdownForImage shows on its way, which report no outcome.
ProgressNotice(msg) ==
    \/ msg \in {"Reading image", "generating yaml for", "No EXIF data"}
    \/ startsWith(msg, "---\n")

\* C5: every conversion that ended has shown a notice for its outcome: the
\* last notice it showed is there and is not one of the progress notices.
C5_Reported ==
    \A t \in Tasks : \A k \in 1..Len(tasks[t].log) :
        /\ Len(tasks[t].log[k].notices) > 0
        /\ ~ProgressNotice(tasks[t].log[k].notices[Len(tasks[t].log[k].notices)])

\* The files of folder p the claim selects, in the order of getFiles():
\* p/a.jpg, pq/c d.JPEG (a textual prefix match), p/e.png.
ClaimedSelection == <<1, 3, 4>>

\* C7: a batch that ended has called convertOne exactly once for each selected
\* file, in enumeration order, and for no other file.
C7_BatchSelection ==
    \A t \in Tasks :
        (tasks[t].kind = "folder" /\ Ended(tasks[t]))
        => [k \in 1..Len(tasks[t].log) |-> tasks[t].log[k].file] = ClaimedSelection

\* The static-property lines C10 states: one `key: value` line per configured
\* property, none when nothing is configured.
ClaimedStaticLines(text) ==
    IF text = "location:Berlin" THEN <<"location: Berlin">> ELSE <<>>

\* C10: for an image without metadata the frontmatter holds the
\* static-property lines, one per configured property, then the created
\* line, and nothing else (settings with no or with one static property).
C10_NoMetadataDocument ==
    \A t \in Tasks :
        ( /\ Composed(tasks[t])
          /\ ~CurrentFile(tasks[t]).exif.hasSize
          /\ Len(CurrentFile(tasks[t]).exif.tags) = 0
          /\ tasks[t].cfgRead.yamlProperties \in {"", "location:Berlin"}
          /\ tasks[t].cfgRead.tags = "" )
        => ReadBack(tasks[t].md).front
             = ClaimedStaticLines(tasks[t].cfgRead.yamlProperties)
               \o <<ExpCreatedLine>>

====
